---- MODULE Spec2Model ----
(***************************************************************************)
(* Dual-path retrieval engine of the Proactive RAG onboarding agent:      *)
(* the semantic (vector) retriever, the metadata (inverted-index)         *)
(* retriever and the fusion engine (DualRetriever) that fans mutations    *)
(* out to both and fuses their rankings.                                   *)
(*                                                                         *)
(* Numbers.  Scores are rationals <<numerator, denominator>> with a       *)
(* positive denominator; document scores (importance, popularity) are     *)
(* hundredths; weights are integers in units of 1/WeightScale.  Rounding  *)
(* of binary floating point is not modelled.                               *)
(***************************************************************************)
EXTENDS Integers, Sequences, FiniteSets, TLC

VARIABLES sem, meta, cfg, pending, last, hist, disk

vars == <<sem, meta, cfg, pending, last, hist, disk>>

(***************************************************************************)
(* Bounds of the model.                                                    *)
(***************************************************************************)
\* vectors the semantic index may hold (caps next_index)
MaxSlots == 2
\* documents in one add_documents batch
MaxBatch == 2
\* mutations whose semantic half is suspended at the embedding call
MaxPending == 2
\* largest top_k a query asks for
MaxTopK == 2
\* times the index files are written
MaxSaves == 1
\* engines built, the first one included
MaxEngines == 2

(***************************************************************************)
(* Generic helpers.                                                        *)
(***************************************************************************)
Max2(a, b) == IF a >= b THEN a ELSE b

Min2(a, b) == IF a <= b THEN a ELSE b

Abs(x) == IF x < 0 THEN -x ELSE x

\* dict[k] = v
Put(f, k, v) == [x \in (DOMAIN f) \cup {k} |-> IF x = k THEN v ELSE f[x]]

\* del dict[k]
Del(f, k) == [x \in (DOMAIN f) \ {k} |-> f[x]]

EmptyMap == [x \in {} |-> {}]

Range(s) == {s[i] : i \in DOMAIN s}

RECURSIVE GCD(_, _)
GCD(a, b) == IF b = 0 THEN a ELSE GCD(b, a % b)

\* rationals <<n, d>>, d > 0; compared and added over the least common
\* denominator
RLess(x, y) ==
    LET g == GCD(x[2], y[2])
    IN  x[1] * (y[2] \div g) < y[1] * (x[2] \div g)

REq(x, y) ==
    LET g == GCD(x[2], y[2])
    IN  x[1] * (y[2] \div g) = y[1] * (x[2] \div g)

RLeq(x, y) == RLess(x, y) \/ REq(x, y)

RZero == <<0, 1>>

RAdd(x, y) ==
    IF x[1] = 0 THEN y
    ELSE IF y[1] = 0 THEN x
    ELSE LET g == GCD(x[2], y[2])
         IN  <<x[1] * (y[2] \div g) + y[1] * (x[2] \div g), (x[2] \div g) * y[2]>>

\* (k / s) * x for integers k and s > 0
RScale(k, s, x) == <<k * x[1], s * x[2]>>

(***************************************************************************)
(* Strings.  A text is a sequence of words; str.lower() maps a word to    *)
(* its lower-case form; "term in text" is substring containment, which on *)
(* the model's vocabulary is equality with a word or a listed proper      *)
(* substring of one.                                                       *)
(***************************************************************************)
Lower(w) ==
    CASE w = "HR" -> "hr"
      [] w = "Engineer" -> "engineer"
      [] w = "People" -> "people"
      [] w = "Leave" -> "leave"
      [] w = "Policy" -> "policy"
      [] w = "Laptop" -> "laptop"
      [] w = "Guide" -> "guide"
      [] w = "Onboarding" -> "onboarding"
      [] w = "IT" -> "it"
      [] OTHER -> w

LowerAll(ws) == {Lower(w) : w \in ws}

LowerSeq(s) == [i \in DOMAIN s |-> Lower(s[i])]

\* proper substrings among the vocabulary: <<needle, word>>
SubstrPairs == {<<"board", "onboarding">>, <<"lap", "laptop">>, <<"rule", "rules">>}

\* needle in word  (both lower-case)
IsSubstr(needle, word) == needle = word \/ <<needle, word>> \in SubstrPairs

\* term in " ".join(words).lower()   (an empty join contains no term)
TermIn(term, words) == \E w \in words : IsSubstr(term, Lower(w))

(***************************************************************************)
(* Document records handed to the mutation API ({id, title, content,      *)
(* metadata}) and the value objects of models/metadata.py.                 *)
(***************************************************************************)
\* None in a string-valued field
NoneVal == "None"

\* None in last_updated: the document has no age
NoAge == -1

\* a ranking that puts confidential below internal
AccessRankSwapped(level) ==
    CASE level = "public" -> 0
      [] level = "internal" -> 2
      [] level = "confidential" -> 1
      [] level = "restricted" -> 3

\* the access_levels table of matches_document
AccessRank(level) ==
    CASE level = "public" -> 0
      [] level = "internal" -> 1
      [] level = "confidential" -> 2
      [] level = "restricted" -> 3

DocumentTypes ==
    {"policy", "procedure", "guide", "manual", "training", "faq",
     "template", "form", "presentation", "video", "other"}

AccessLevels == {"public", "internal", "confidential", "restricted"}

\* DocumentMetadata(**doc['metadata']) validates: the type and access level
\* are enum members and both scores lie in [0, 1] (hundredths here)
MetadataValid(md) ==
    /\ md.document_type \in DocumentTypes
    /\ md.access_level \in AccessLevels
    /\ md.importance_score >= 0 /\ md.importance_score <= 100
    /\ md.popularity_score >= 0 /\ md.popularity_score <= 100

\* is_fresh(max_age_days): last_updated is set and its age is within the bound
\* (age_days is the document's age in days at query time, NoAge when
\* last_updated is None)
IsFresh(md, max_age_days) ==
    IF md.age_days = NoAge THEN FALSE ELSE md.age_days <= max_age_days

DocA1 ==
    [id |-> "A", title |-> <<"Leave", "Policy">>,
     content |-> <<"annual", "leave", "rules">>, vec |-> "v1",
     metadata |->
       [document_type |-> "policy", description |-> <<"leave", "rules">>,
        topics |-> {"HR"}, keywords |-> {"leave"}, tags |-> {"benefits"},
        target_roles |-> {"Engineer"}, department |-> "People",
        importance_score |-> 90, popularity_score |-> 50,
        access_level |-> "internal", age_days |-> 30]]

DocA2 ==
    [id |-> "A", title |-> <<"Leave", "Policy">>,
     content |-> <<"onboarding", "leave", "checklist">>, vec |-> "v2",
     metadata |->
       [document_type |-> "procedure", description |-> <<>>,
        topics |-> {"hr", "onboarding"}, keywords |-> {"checklist"},
        tags |-> {}, target_roles |-> {}, department |-> NoneVal,
        importance_score |-> 70, popularity_score |-> 50,
        access_level |-> "confidential", age_days |-> 400]]

DocB1 ==
    [id |-> "B", title |-> <<"Laptop", "Guide">>,
     content |-> <<"laptop", "setup", "policy">>, vec |-> "v3",
     metadata |->
       [document_type |-> "guide", description |-> <<>>,
        topics |-> {"it"}, keywords |-> {"laptop"}, tags |-> {"leave"},
        target_roles |-> {"engineer", "manager"}, department |-> "IT",
        importance_score |-> 40, popularity_score |-> 50,
        access_level |-> "public", age_days |-> NoAge]]

Catalogue == {DocA1, DocA2, DocB1}

DocIds == {d.id : d \in Catalogue}

RECURSIVE SeqsUpTo(_, _)
SeqsUpTo(S, n) ==
    IF n = 0 THEN {<<>>}
    ELSE LET shorter == SeqsUpTo(S, n - 1)
         IN  shorter \cup {Append(s, x) : s \in shorter, x \in S}

\* the batches add_documents is called with
Batches == SeqsUpTo(Catalogue, MaxBatch)

(***************************************************************************)
(* Semantic retriever (retrievers/semantic_retriever.py).  Its state:     *)
(* documents (slot -> record), id_to_index (id -> slot), next_index, and  *)
(* vectors, the rows of the FAISS index (row i is the embedding added at  *)
(* slot i; rows are never removed or replaced).                            *)
(***************************************************************************)
SemInit ==
    [documents |-> <<>>, id_to_index |-> <<>>, next_index |-> 0,
     vectors |-> <<>>, model_name |-> "all-MiniLM-L6-v2", dimension |-> 384]

\* the loop "for i, doc in enumerate(doc_data)" from position i on
RECURSIVE SemStore(_, _, _, _)
SemStore(s, docs, start_idx, i) ==
    IF i > Len(docs) THEN s
    ELSE LET doc == docs[i]
             idx == start_idx + (i - 1)
         IN  SemStore([s EXCEPT !.documents = Put(s.documents, idx, doc),
                                !.id_to_index = Put(s.id_to_index, doc.id, idx)],
                      docs, start_idx, i + 1)

\* add_documents after the embeddings have been computed: append the rows,
\* store the records from next_index on, advance next_index
SemAddDocuments(s, docs) ==
    IF docs = <<>> THEN s
    ELSE LET grown == [s EXCEPT !.vectors = s.vectors \o [i \in 1..Len(docs) |-> docs[i].vec]]
             stored == SemStore(grown, docs, s.next_index, 1)
         IN  [stored EXCEPT !.next_index = s.next_index + Len(docs)]

\* update_document up to its embedding call: the membership check
SemUpdateFound(s, document_id) == document_id \in DOMAIN s.id_to_index

\* update_document after the embedding call: replace the record at the slot
\* looked up before the call; the index row is left as it was
SemUpdateWrite(s, idx, document) ==
    [s EXCEPT !.documents = Put(s.documents, idx, document)]

\* delete_document: [st, ok]; removes the slot's record and the id's entry
SemDeleteDocument(s, document_id) ==
    IF document_id \notin DOMAIN s.id_to_index THEN [st |-> s, ok |-> FALSE]
    ELSE LET idx == s.id_to_index[document_id]
         IN  IF idx \notin DOMAIN s.documents THEN [st |-> s, ok |-> FALSE]
             ELSE [st |-> [s EXCEPT !.documents = Del(s.documents, idx),
                                    !.id_to_index = Del(s.id_to_index, document_id)],
                   ok |-> TRUE]

(***************************************************************************)
(* Metadata retriever (retrievers/metadata_retriever.py).  Its state: the *)
(* document table and five inverted indices, each a defaultdict(set): a   *)
(* function whose domain is the set of keys the dict holds.                *)
(***************************************************************************)
MetaInit ==
    [documents |-> <<>>, topic_index |-> <<>>, keyword_index |-> <<>>,
     role_index |-> <<>>, department_index |-> <<>>, type_index |-> <<>>]

\* index[term]: the stored set, or the empty set a defaultdict creates
IdxGet(ix, term) == IF term \in DOMAIN ix THEN ix[term] ELSE {}

\* the key index[term] leaves behind
IdxTouch(ix, term) == IF term \in DOMAIN ix THEN ix ELSE Put(ix, term, {})

\* for term in terms: index[term].add(doc_id)
IdxAddAll(ix, terms, doc_id) ==
    [t \in (DOMAIN ix) \cup terms |->
        IF t \in terms THEN IdxGet(ix, t) \cup {doc_id} ELSE ix[t]]

\* for term_set in index.values(): term_set.discard(doc_id)
IdxDiscard(ix, doc_id) == [t \in DOMAIN ix |-> ix[t] \ {doc_id}]

\* _update_indices past the validation of the metadata
MetaUpdateIndices(m, doc_id, doc_data) ==
    LET md == doc_data.metadata
    IN  [m EXCEPT
           !.topic_index = IdxAddAll(m.topic_index, LowerAll(md.topics), doc_id),
           !.keyword_index =
               IdxAddAll(IdxAddAll(m.keyword_index, LowerAll(md.keywords), doc_id),
                         LowerAll(md.tags), doc_id),
           !.role_index = IdxAddAll(m.role_index, LowerAll(md.target_roles), doc_id),
           !.department_index =
               IF md.department # NoneVal
               THEN IdxAddAll(m.department_index, {Lower(md.department)}, doc_id)
               ELSE m.department_index,
           !.type_index = IdxAddAll(m.type_index, {md.document_type}, doc_id)]

MetaRemoveFromIndices(m, doc_id) ==
    [m EXCEPT !.topic_index = IdxDiscard(m.topic_index, doc_id),
              !.keyword_index = IdxDiscard(m.keyword_index, doc_id),
              !.role_index = IdxDiscard(m.role_index, doc_id),
              !.department_index = IdxDiscard(m.department_index, doc_id),
              !.type_index = IdxDiscard(m.type_index, doc_id)]

\* add_documents from position i on: [st, ok]; a record whose metadata does
\* not validate raises inside _update_indices, after the table was written
RECURSIVE MetaAddFrom(_, _, _)
MetaAddFrom(m, docs, i) ==
    IF i > Len(docs) THEN [st |-> m, ok |-> TRUE]
    ELSE LET doc == docs[i]
             tabled == [m EXCEPT !.documents = Put(m.documents, doc.id, doc)]
         IN  IF ~MetadataValid(doc.metadata) THEN [st |-> tabled, ok |-> FALSE]
             ELSE MetaAddFrom(MetaUpdateIndices(tabled, doc.id, doc), docs, i + 1)

MetaAddDocuments(m, docs) == MetaAddFrom(m, docs, 1)

\* an update that writes the record whether or not the id is in the table
MetaUpsertDocument(m, document_id, document) ==
    LET removed == MetaRemoveFromIndices(m, document_id)
        tabled == [removed EXCEPT
                     !.documents = Put(removed.documents, document_id, document)]
    IN  IF ~MetadataValid(document.metadata) THEN [st |-> tabled, ok |-> FALSE]
        ELSE [st |-> MetaUpdateIndices(tabled, document_id, document), ok |-> TRUE]

\* update_document: [st, ok]
MetaUpdateDocument(m, document_id, document) ==
    IF document_id \notin DOMAIN m.documents THEN [st |-> m, ok |-> FALSE]
    ELSE LET removed == MetaRemoveFromIndices(m, document_id)
             tabled == [removed EXCEPT
                          !.documents = Put(removed.documents, document_id, document)]
         IN  IF ~MetadataValid(document.metadata) THEN [st |-> tabled, ok |-> FALSE]
             ELSE [st |-> MetaUpdateIndices(tabled, document_id, document), ok |-> TRUE]

\* delete_document: [st, ok]
MetaDeleteDocument(m, document_id) ==
    IF document_id \notin DOMAIN m.documents THEN [st |-> m, ok |-> FALSE]
    ELSE LET removed == MetaRemoveFromIndices(m, document_id)
         IN  [st |-> [removed EXCEPT !.documents = Del(removed.documents, document_id)],
              ok |-> TRUE]

(***************************************************************************)
(* Filter evaluator (models/metadata.py).  A FilterCriteria is a record;  *)
(* present = FALSE stands for filters=None.  max_age_days = 0 is "not     *)
(* set" (None and 0 are both falsy in the code's test).                    *)
(***************************************************************************)
DefaultFilter ==
    [present |-> TRUE, target_role |-> NoneVal, department |-> NoneVal,
     document_types |-> {}, exclude_types |-> {}, required_topics |-> {},
     preferred_topics |-> {}, keywords |-> {}, max_age_days |-> 0,
     min_importance_score |-> 0, min_popularity_score |-> 0,
     max_access_level |-> "internal"]

NoFilters == [DefaultFilter EXCEPT !.present = FALSE]

\* DocumentMetadata.is_relevant_for_role(role, department)
IsRelevantForRole(md, role, department) ==
    \/ md.target_roles = {}
    \/ Lower(role) \in LowerAll(md.target_roles)
    \/ /\ department # NoneVal
       /\ md.department # NoneVal
       /\ Lower(department) = Lower(md.department)

\* FilterCriteria.matches_document(metadata)
MatchesDocument(f, md) ==
    /\ ~(f.target_role # NoneVal /\ ~IsRelevantForRole(md, f.target_role, f.department))
    /\ ~(f.document_types # {} /\ md.document_type \notin f.document_types)
    /\ md.document_type \notin f.exclude_types
    /\ ~(f.required_topics # {}
         /\ ~(\E t \in LowerAll(f.required_topics) : t \in LowerAll(md.topics)))
    /\ ~(f.max_age_days # 0 /\ ~IsFresh(md, f.max_age_days))
    /\ ~(md.importance_score < f.min_importance_score)
    /\ ~(md.popularity_score < f.min_popularity_score)
    /\ ~(AccessRank(md.access_level) > AccessRank(f.max_access_level))

\* the denominator the boost and the scores of one query are written over:
\* 1000 * (number of query terms, at least 1) * (number of preferred topics,
\* at least 1)
PrefCount(f) == IF f.present /\ f.preferred_topics # {} THEN Cardinality(f.preferred_topics) ELSE 1

\* FilterCriteria.calculate_relevance_boost(metadata), in units of
\* 1 / (1000 * PrefCount(f)):  min(0.2 * matches / preferred + 0.1 + 0.1, 0.5)
BoostNum(f, md) ==
    LET p == PrefCount(f)
        topic_matches ==
            Cardinality({t \in LowerAll(f.preferred_topics) : t \in LowerAll(md.topics)})
        topics == IF f.preferred_topics # {} THEN 200 * topic_matches ELSE 0
        role == IF f.target_role # NoneVal /\ Lower(f.target_role) \in LowerAll(md.target_roles)
                THEN 100 * p ELSE 0
        dept == IF /\ f.department # NoneVal
                   /\ md.department # NoneVal
                   /\ Lower(f.department) = Lower(md.department)
                THEN 100 * p ELSE 0
    IN  Min2(topics + role + dept, 500 * p)

(***************************************************************************)
(* Metadata retriever: query analysis, filtering and scoring.              *)
(***************************************************************************)
\* the stop words of _extract_query_terms that the model's queries use
StopWords == {"the", "for", "how", "and", "all"}

\* len(term) of the vocabulary's words that are not longer than two letters
ShortWords == {"hr", "it"}

\* _extract_query_terms(query.lower()): the words that are no stop word and
\* longer than two characters
ExtractQueryTerms(query) ==
    LET lowered == LowerSeq(query)
    IN  SelectSeq(lowered, LAMBDA w : w \notin StopWords /\ w \notin ShortWords)

Expansions(term) ==
    CASE term = "training" -> {"learning", "education", "development", "course"}
      [] term = "policy" -> {"procedure", "guideline", "rule", "standard"}
      [] term = "manager" -> {"supervisor", "lead", "director", "boss"}
      [] term = "team" -> {"group", "department", "unit", "squad"}
      [] term = "process" -> {"procedure", "workflow", "method", "approach"}
      [] term = "software" -> {"application", "system", "tool", "platform"}
      [] term = "onboarding" -> {"orientation", "introduction", "induction", "welcome"}
      [] OTHER -> {}

\* _expand_query_terms: list(set(terms + expansions)), a duplicate-free list
\* whose order no score depends on
ExpandQueryTerms(terms) == Range(terms) \cup UNION {Expansions(t) : t \in Range(terms)}

QueryTerms(query) == ExpandQueryTerms(ExtractQueryTerms(query))

\* query terms counted by the scores, at least 1 for the denominator
TermCount(query) == Max2(Cardinality(QueryTerms(query)), 1)

ScoreDen(query, f) == 1000 * TermCount(query) * PrefCount(f)

Hits(terms, words) == Cardinality({t \in terms : TermIn(t, words)})

\* _calculate_text_score * 2n:  min(matches/n + 0.5 * title_matches/n, 1)
TextScoreNum(terms, doc_data) ==
    IF terms = {} THEN 0
    ELSE Min2(2 * Hits(terms, Range(doc_data.title) \cup Range(doc_data.content))
                + Hits(terms, Range(doc_data.title)),
              2 * Cardinality(terms))

\* _calculate_metadata_score * 10n:
\* min(0.4 topics/n + 0.3 keywords/n + 0.2 description/n + 0.1 tags/n, 1)
MetadataScoreNum(terms, md) ==
    IF terms = {} THEN 0
    ELSE Min2(4 * Hits(terms, md.topics) + 3 * Hits(terms, md.keywords)
                + 2 * Hits(terms, Range(md.description)) + Hits(terms, md.tags),
              10 * Cardinality(terms))

\* _calculate_quality_score * 200:
\* min((importance + popularity) / 2 + freshness bonus, 1)
QualityScoreNum(md) ==
    LET bonus == IF IsFresh(md, 90) THEN 20 ELSE IF IsFresh(md, 365) THEN 10 ELSE 0
    IN  Min2(md.importance_score + md.popularity_score + bonus, 200)

\* total_score of retrieve over ScoreDen(query, f):
\* 0.4 * text + 0.4 * metadata + 0.2 * quality (+ boost when filters are given)
MetaTotalNum(query, f, doc_data) ==
    LET terms == QueryTerms(query)
        n == TermCount(query)
        p == PrefCount(f)
        md == doc_data.metadata
    IN  200 * p * TextScoreNum(terms, doc_data) + 40 * p * MetadataScoreNum(terms, md)
          + n * p * QualityScoreNum(md)
          + (IF f.present THEN n * BoostNum(f, md) ELSE 0)

\* the index reads of _apply_filters, each of which leaves its key behind
MetaTouchFilterKeys(m, f) ==
    LET Touch(ix, terms) == [t \in (DOMAIN ix) \cup terms |-> IdxGet(ix, t)]
    IN  [m EXCEPT
           !.type_index = Touch(m.type_index, f.document_types \cup f.exclude_types),
           !.role_index = Touch(m.role_index,
                                IF f.target_role # NoneVal THEN {Lower(f.target_role)} ELSE {}),
           !.department_index = Touch(m.department_index,
                                      IF f.department # NoneVal THEN {Lower(f.department)} ELSE {}),
           !.topic_index = Touch(m.topic_index, LowerAll(f.required_topics)),
           !.keyword_index = Touch(m.keyword_index, LowerAll(f.keywords))]

\* _apply_filters up to its document-level loop: the ids the index
\* intersections and subtractions leave
MetaIndexFilter(m, candidates, f) ==
    LET by_type == IF f.document_types # {}
                   THEN candidates \cap UNION {IdxGet(m.type_index, t) : t \in f.document_types}
                   ELSE candidates
        not_excluded == by_type \ UNION {IdxGet(m.type_index, t) : t \in f.exclude_types}
        by_role == IF f.target_role # NoneVal
                   THEN not_excluded \cap IdxGet(m.role_index, Lower(f.target_role))
                   ELSE not_excluded
        by_dept == IF f.department # NoneVal
                   THEN by_role \cap IdxGet(m.department_index, Lower(f.department))
                   ELSE by_role
        by_topic == {d \in by_dept :
                        \A t \in LowerAll(f.required_topics) : d \in IdxGet(m.topic_index, t)}
    IN  {d \in by_topic :
            \A k \in LowerAll(f.keywords) : d \in IdxGet(m.keyword_index, k)}

\* _apply_filters(candidates, filters): the surviving ids
MetaApplyFilters(m, candidates, f) ==
    {d \in MetaIndexFilter(m, candidates, f) : MatchesDocument(f, m.documents[d].metadata)}

\* results.sort(key=relevance_score, reverse=True): stable, descending
RECURSIVE InsertDesc(_, _)
InsertDesc(sorted, r) ==
    IF sorted = <<>> THEN <<r>>
    ELSE IF RLess(Head(sorted).relevance_score, r.relevance_score) THEN <<r>> \o sorted
         ELSE <<Head(sorted)>> \o InsertDesc(Tail(sorted), r)

RECURSIVE SortDescFrom(_, _, _)
SortDescFrom(results, i, sorted) ==
    IF i > Len(results) THEN sorted
    ELSE SortDescFrom(results, i + 1, InsertDesc(sorted, results[i]))

SortDesc(results) == SortDescFrom(results, 1, <<>>)

\* results[:top_k]
Truncate(results, top_k) == SubSeq(results, 1, Min2(Len(results), Max2(top_k, 0)))

\* the orders in which a Python set of ids may be iterated
Orders(ids) ==
    {o \in [1..Cardinality(ids) -> ids] : \A i, j \in DOMAIN o : i # j => o[i] # o[j]}

PolicyFilter == [DefaultFilter EXCEPT !.document_types = {"policy"}]

EngineerFilter ==
    [DefaultFilter EXCEPT !.target_role = "engineer", !.department = "people",
                          !.preferred_topics = {"hr"},
                          !.max_access_level = "restricted"]

\* criteria that only bound the access level
AccessFilters == {[DefaultFilter EXCEPT !.max_access_level = level] : level \in AccessLevels}

\* criteria that require a keyword
KeywordFilter == [DefaultFilter EXCEPT !.keywords = {"Leave"}]

\* criteria that require two topics and exclude a type
TopicFilter ==
    [DefaultFilter EXCEPT !.required_topics = {"HR", "onboarding"},
                          !.exclude_types = {"guide"},
                          !.max_access_level = "confidential"]

Filters == {NoFilters, PolicyFilter, EngineerFilter, KeywordFilter, TopicFilter} \cup AccessFilters

QueryLeave == <<"Leave", "policy">>

QueryOnboarding == <<"the", "HR", "onboarding">>

Queries == {QueryLeave, QueryOnboarding}

\* the (query, filters) pairs retrieve is called with
Requests == {<<QueryLeave, NoFilters>>, <<QueryLeave, PolicyFilter>>,
             <<QueryOnboarding, NoFilters>>, <<QueryOnboarding, EngineerFilter>>}

\* the embeddings a document may come with
Vecs == {"v1", "v2", "v3"}

\* a record with the given fields and DocumentMetadata's defaults elsewhere
\* (popularity 0.0, access level internal, no last_updated)
ScenarioDoc(id, title, document_type, topics, importance_score, vec) ==
    [id |-> id, title |-> title, content |-> <<"handbook">>, vec |-> vec,
     metadata |->
       [document_type |-> document_type, description |-> <<>>,
        topics |-> topics, keywords |-> {}, tags |-> {},
        target_roles |-> {}, department |-> NoneVal,
        importance_score |-> importance_score, popularity_score |-> 0,
        access_level |-> "internal", age_days |-> NoAge]]

ScenarioA(vec) == ScenarioDoc("A", <<"benefits">>, "policy", {"hr"}, 90, vec)

ScenarioB(vec) == ScenarioDoc("B", <<"laptop">>, "guide", {"it"}, 40, vec)

ScenarioC(vec) == ScenarioDoc("C", <<"checklist">>, "policy", {"hr", "onboarding"}, 70, vec)

ScenarioDocs == UNION {{ScenarioA(vec), ScenarioB(vec), ScenarioC(vec)} : vec \in Vecs}

QueryScenario == <<"hr", "onboarding", "policy">>

\* a stub: a two-letter title, no content, DocumentMetadata's defaults
StubDoc == ScenarioDoc("D", <<"HR">>, "other", {}, 0, "v1")

StubText == [StubDoc EXCEPT !.content = <<>>]

\* the documents queried by title
SurfaceDocs == Catalogue \cup {StubText}

TitleWords == UNION {Range(d.title) : d \in SurfaceDocs}

ExtraWords == {"leave", "onboarding"}

\* queries of one title word, alone or followed by one more word
SurfaceQueries ==
    {<<w>> : w \in TitleWords} \cup {<<w, x>> : w \in TitleWords, x \in ExtraWords}

\* the queries and records the score tables are computed for
ScoredQueries == Queries \cup {QueryScenario} \cup SurfaceQueries

ScoredDocs == Catalogue \cup ScenarioDocs \cup {StubText}

MetaTotalTable == [q \in ScoredQueries, f \in Filters, d \in ScoredDocs |-> MetaTotalNum(q, f, d)]

ScoreDenTable == [q \in ScoredQueries, f \in Filters |-> ScoreDen(q, f)]

BoostTable == [q \in ScoredQueries, f \in Filters, d \in ScoredDocs |-> IF f.present THEN TermCount(q) * BoostNum(f, d.metadata) ELSE 0]

NP == [q \in ScoredQueries, f \in Filters |-> TermCount(q) * PrefCount(f)]

\* a RetrievalResult: the record behind it (content and citation fields),
\* the id it cites, the score the citation carries and the score of the result
MetaResult(query, f, doc_id, doc_data) ==
    LET total == <<MetaTotalTable[query, f, doc_data], ScoreDenTable[query, f]>>
    IN  [source_id |-> doc_id, title |-> doc_data.title, doc |-> doc_data,
         citation_score |-> total, relevance_score |-> total,
         retriever_type |-> "metadata"]

\* SourceCitation accepts a relevance_score in [0, 1] only
CitationValid(score) == score[1] >= 0 /\ score[1] <= score[2]

\* the candidates retrieve scores: every id, or the survivors of the filters
MetaCandidates(m, f) ==
    IF f.present THEN MetaApplyFilters(m, DOMAIN m.documents, f) ELSE DOMAIN m.documents

\* DocumentMetadata(**doc_data['metadata']) raises in the filter loop or in
\* the scoring loop
MetaValidationRaises(m, f) ==
    LET looked_at == IF f.present THEN MetaIndexFilter(m, DOMAIN m.documents, f)
                     ELSE DOMAIN m.documents
    IN  \E d \in looked_at : ~MetadataValid(m.documents[d].metadata)

\* MetadataRetriever.retrieve with the candidates iterated in the given
\* order: [ok, results, st]; st carries the keys the filter reads created
MetaRetrieve(m, query, f, top_k, order) ==
    LET touched == IF f.present THEN MetaTouchFilterKeys(m, f) ELSE m
        scored == [i \in DOMAIN order |->
                      MetaResult(query, f, order[i], m.documents[order[i]])]
        raises == \/ MetaValidationRaises(m, f)
                  \/ \E i \in DOMAIN scored : ~CitationValid(scored[i].citation_score)
    IN  IF raises THEN [ok |-> FALSE, results |-> <<>>, st |-> touched]
        ELSE [ok |-> TRUE, results |-> Truncate(SortDesc(scored), top_k), st |-> touched]

(***************************************************************************)
(* Semantic retriever: retrieve.  The embedding model is an external      *)
(* collaborator: Similarity(query, vec) is the inner product, in          *)
(* thousandths, of the normalized embeddings of the query and of a row.   *)
(***************************************************************************)
Similarity(query, vec) ==
    IF query = QueryLeave
    THEN CASE vec = "v1" -> 900 [] vec = "v2" -> 700 [] OTHER -> 100
    ELSE CASE vec = "v1" -> 300 [] vec = "v2" -> 800 [] OTHER -> -50

\* retrieve's default similarity_threshold, in thousandths
SimilarityThreshold == 0

\* index.search(query_embedding, k): the k rows (0-based) of largest inner
\* product, best first; rows that tie may come in either order.  With fewer
\* than k rows the remaining places hold -1, which retrieve skips
RECURSIVE TopRows(_, _, _, _)
TopRows(s, query, rows, k) ==
    IF k = 0 \/ rows = {} THEN {<<>>}
    ELSE LET Score(i) == Similarity(query, s.vectors[i + 1])
             best == {i \in rows : \A j \in rows : Score(j) <= Score(i)}
         IN  UNION {{<<i>> \o t : t \in TopRows(s, query, rows \ {i}, k - 1)} : i \in best}

SearchOutcomes(s, query, k) == TopRows(s, query, 0..(Len(s.vectors) - 1), k)

\* search_k = min(top_k * 3, len(self.documents))
SearchK(s, top_k) == Min2(top_k * 3, Cardinality(DOMAIN s.documents))

SemResult(query, f, doc_data, sim) ==
    LET np == NP[query, f]
        boost == BoostTable[query, f, doc_data]
    IN  [source_id |-> doc_data.id, title |-> doc_data.title, doc |-> doc_data,
         citation_score |-> <<sim * np, ScoreDenTable[query, f]>>,
         relevance_score |-> <<sim * np + boost, ScoreDenTable[query, f]>>,
         retriever_type |-> "semantic"]

\* the loop over the hits from position i on: [ok, results]
RECURSIVE SemScan(_, _, _, _, _, _)
SemScan(s, query, f, hits, i, acc) ==
    IF i > Len(hits) THEN [ok |-> TRUE, results |-> acc]
    ELSE LET idx == hits[i]
             sim == Similarity(query, s.vectors[idx + 1])
         IN  IF sim < SimilarityThreshold THEN SemScan(s, query, f, hits, i + 1, acc)
             ELSE IF idx \notin DOMAIN s.documents
                  THEN [ok |-> FALSE, results |-> <<>>]      \* KeyError
             ELSE LET doc_data == s.documents[idx]
                      r == SemResult(query, f, doc_data, sim)
                  IN  IF ~MetadataValid(doc_data.metadata)
                      THEN [ok |-> FALSE, results |-> <<>>]  \* ValidationError
                      ELSE IF f.present /\ ~MatchesDocument(f, doc_data.metadata)
                      THEN SemScan(s, query, f, hits, i + 1, acc)
                      ELSE IF ~CitationValid(r.citation_score)
                      THEN [ok |-> FALSE, results |-> <<>>]  \* ValidationError
                      ELSE SemScan(s, query, f, hits, i + 1, Append(acc, r))

\* SemanticRetriever.retrieve given what index.search returned: [ok, results]
SemRetrieve(s, query, f, top_k, hits) ==
    IF SearchK(s, top_k) = 0 THEN [ok |-> TRUE, results |-> <<>>]
    ELSE LET scanned == SemScan(s, query, f, hits, 1, <<>>)
         IN  IF scanned.ok
             THEN [ok |-> TRUE, results |-> Truncate(SortDesc(scanned.results), top_k)]
             ELSE scanned

(***************************************************************************)
(* Fusion engine (retrievers/dual_retriever.py): construction, fusion and *)
(* final ranking.  Weights are integers in units of 1/WeightScale.         *)
(***************************************************************************)
\* weight units per 1.0, so that the tolerance 0.001 is WeightTolerance units
WeightScale == 2000

WeightTolerance == 2

\* k of _reciprocal_rank_fusion
RrfK == 60

\* a constructor that would also reject a sum exactly 0.001 away from 1.0
ConstructStrict(semantic_weight, metadata_weight, fusion_method) ==
    [semantic_weight |-> semantic_weight, metadata_weight |-> metadata_weight,
     fusion_method |-> fusion_method,
     status |-> IF Abs(semantic_weight + metadata_weight - WeightScale) >= WeightTolerance
                THEN "error" ELSE "ok"]

\* __init__: raises ValueError when abs(sw + mw - 1.0) > 0.001, after the
\* fields were set
Construct(semantic_weight, metadata_weight, fusion_method) ==
    [semantic_weight |-> semantic_weight, metadata_weight |-> metadata_weight,
     fusion_method |-> fusion_method,
     status |-> IF Abs(semantic_weight + metadata_weight - WeightScale) > WeightTolerance
                THEN "error" ELSE "ok"]

\* the position of the last result citing doc_id, 0 when there is none:
\* doc_results[doc_id][side] as the grouping loop leaves it
LastCiting(results, doc_id) ==
    LET at == {i \in DOMAIN results : results[i].source_id = doc_id}
    IN  IF at = {} THEN 0 ELSE CHOOSE i \in at : \A j \in at : j <= i

\* a rank counted from 0
RankFromZero(results, result) ==
    (CHOOSE i \in DOMAIN results :
        /\ results[i] = result
        /\ \A j \in DOMAIN results : results[j] = result => i <= j) - 1

\* list.index(result) + 1: the place of the first result equal to it
RankOf(results, result) ==
    CHOOSE i \in DOMAIN results :
        /\ results[i] = result
        /\ \A j \in DOMAIN results : results[j] = result => i <= j

\* the keys of doc_results in insertion order: the ids of the semantic
\* results by first occurrence, then the new ids of the metadata results
RECURSIVE DistinctIds(_, _, _)
DistinctIds(results, i, acc) ==
    IF i > Len(results) THEN acc
    ELSE DistinctIds(results, i + 1,
                     IF results[i].source_id \in Range(acc) THEN acc
                     ELSE Append(acc, results[i].source_id))

GroupedIds(semantic_results, metadata_results) ==
    DistinctIds(metadata_results, 1, DistinctIds(semantic_results, 1, <<>>))

\* a weighted sum with the two weights exchanged
WeightedSumSwapped(c, s, m) ==
    LET semantic_score == IF s # <<>> THEN s[1].relevance_score ELSE RZero
        metadata_score == IF m # <<>> THEN m[1].relevance_score ELSE RZero
    IN  RAdd(RScale(c.metadata_weight, WeightScale, semantic_score),
             RScale(c.semantic_weight, WeightScale, metadata_score))

\* _weighted_sum_fusion; s and m are sequences of at most one result
WeightedSumFusion(c, s, m) ==
    LET semantic_score == IF s # <<>> THEN s[1].relevance_score ELSE RZero
        metadata_score == IF m # <<>> THEN m[1].relevance_score ELSE RZero
    IN  RAdd(RScale(c.semantic_weight, WeightScale, semantic_score),
             RScale(c.metadata_weight, WeightScale, metadata_score))

\* _reciprocal_rank_fusion
ReciprocalRankFusion(c, s, m, semantic_results, metadata_results) ==
    LET from_semantic ==
            IF s # <<>>
            THEN <<c.semantic_weight, WeightScale * (RrfK + RankOf(semantic_results, s[1]))>>
            ELSE RZero
        from_metadata ==
            IF m # <<>>
            THEN <<c.metadata_weight, WeightScale * (RrfK + RankOf(metadata_results, m[1]))>>
            ELSE RZero
    IN  RAdd(from_semantic, from_metadata)

\* a fusion that keeps the semantic score whenever there is one
SemanticFirstFusion(s, m) ==
    IF s # <<>> THEN s[1].relevance_score
    ELSE IF m # <<>> THEN m[1].relevance_score
    ELSE RZero

\* _max_fusion
MaxFusion(s, m) ==
    IF s # <<>> /\ m # <<>>
    THEN (IF RLess(s[1].relevance_score, m[1].relevance_score)
          THEN m[1].relevance_score ELSE s[1].relevance_score)
    ELSE IF s # <<>> THEN s[1].relevance_score
    ELSE IF m # <<>> THEN m[1].relevance_score
    ELSE RZero

FusionMethods == {"weighted_sum", "rrf", "max"}

FusedScore(c, s, m, semantic_results, metadata_results) ==
    CASE c.fusion_method = "weighted_sum" -> WeightedSumFusion(c, s, m)
      [] c.fusion_method = "rrf" ->
            ReciprocalRankFusion(c, s, m, semantic_results, metadata_results)
      [] c.fusion_method = "max" -> MaxFusion(s, m)

\* a fused result built on the metadata result when there is one
FusedResultMetadataFirst(c, doc_id, semantic_results, metadata_results) ==
    LET si == LastCiting(semantic_results, doc_id)
        mi == LastCiting(metadata_results, doc_id)
        s == IF si = 0 THEN <<>> ELSE <<semantic_results[si]>>
        m == IF mi = 0 THEN <<>> ELSE <<metadata_results[mi]>>
        base == IF m # <<>> THEN m[1] ELSE s[1]
        fused_score == FusedScore(c, s, m, semantic_results, metadata_results)
    IN  [source_id |-> base.source_id, title |-> base.title, doc |-> base.doc,
         citation_score |-> base.citation_score,
         relevance_score |-> fused_score,
         fusion_method |-> c.fusion_method,
         semantic_score |-> IF s # <<>> THEN s[1].relevance_score ELSE RZero,
         metadata_score |-> IF m # <<>> THEN m[1].relevance_score ELSE RZero,
         fused_score |-> fused_score,
         has_semantic |-> s # <<>>, has_metadata |-> m # <<>>]

\* the fused RetrievalResult of one document
FusedResult(c, doc_id, semantic_results, metadata_results) ==
    LET si == LastCiting(semantic_results, doc_id)
        mi == LastCiting(metadata_results, doc_id)
        s == IF si = 0 THEN <<>> ELSE <<semantic_results[si]>>
        m == IF mi = 0 THEN <<>> ELSE <<metadata_results[mi]>>
        base == IF s # <<>> THEN s[1] ELSE m[1]
        fused_score == FusedScore(c, s, m, semantic_results, metadata_results)
    IN  [source_id |-> base.source_id, title |-> base.title, doc |-> base.doc,
         citation_score |-> base.citation_score,
         relevance_score |-> fused_score,
         fusion_method |-> c.fusion_method,
         semantic_score |-> IF s # <<>> THEN s[1].relevance_score ELSE RZero,
         metadata_score |-> IF m # <<>> THEN m[1].relevance_score ELSE RZero,
         fused_score |-> fused_score,
         has_semantic |-> s # <<>>, has_metadata |-> m # <<>>]

\* _fuse_results: [ok, results]; an unknown fusion method raises as soon as
\* there is a document to fuse
FuseResults(c, semantic_results, metadata_results) ==
    LET ids == GroupedIds(semantic_results, metadata_results)
    IN  IF ids # <<>> /\ c.fusion_method \notin FusionMethods
        THEN [ok |-> FALSE, results |-> <<>>]
        ELSE [ok |-> TRUE,
              results |-> [i \in DOMAIN ids |->
                              FusedResult(c, ids[i], semantic_results, metadata_results)]]

\* max_per_source = max(1, top_k // 3)
MaxPerSource(top_k) == Max2(1, top_k \div 3)

TitleCount(results, title) == Cardinality({i \in DOMAIN results : results[i].title = title})

\* an admission test that lets one more result per title through
AdmitsOneMore(diverse, result, top_k) ==
    \/ TitleCount(diverse, result.title) <= MaxPerSource(top_k)
    \/ Len(diverse) < top_k \div 2

\* the admission test of _final_ranking's loop
Admits(diverse, result, top_k) ==
    \/ TitleCount(diverse, result.title) < MaxPerSource(top_k)
    \/ Len(diverse) < top_k \div 2

\* the loop of _final_ranking from position i on
RECURSIVE DiversityLoop(_, _, _, _)
DiversityLoop(sorted, top_k, i, diverse) ==
    IF i > Len(sorted) THEN diverse
    ELSE IF Admits(diverse, sorted[i], top_k)
         THEN LET grown == Append(diverse, sorted[i])
              IN  IF Len(grown) >= top_k THEN grown
                  ELSE DiversityLoop(sorted, top_k, i + 1, grown)
         ELSE DiversityLoop(sorted, top_k, i + 1, diverse)

\* _final_ranking(results, top_k)
FinalRanking(results, top_k) == DiversityLoop(SortDesc(results), top_k, 1, <<>>)

\* retrieve's default per-side count: max(top_k * 2, min_sources)
MinSources == 2

SideTopK(top_k) == Max2(top_k * 2, MinSources)

\* DualRetriever.retrieve given what the index search returned and the order
\* the metadata candidates were iterated in: [ok, results, meta], and what
\* each of the two retrievers did (semantic, metadata: [ok, results])
DualRetrieve(c, s, m, query, f, top_k, hits, order) ==
    LET sr == SemRetrieve(s, query, f, SideTopK(top_k), hits)
        mr == MetaRetrieve(m, query, f, SideTopK(top_k), order)
        fused == FuseResults(c, sr.results, mr.results)
    IN  IF sr.ok /\ mr.ok /\ fused.ok
        THEN [ok |-> TRUE, results |-> FinalRanking(fused.results, top_k), meta |-> mr.st,
              semantic |-> sr, metadata |-> mr]
        ELSE [ok |-> FALSE, results |-> <<>>, meta |-> mr.st,
              semantic |-> sr, metadata |-> mr]

(***************************************************************************)
(* Fusion engine (retrievers/dual_retriever.py): mutations.  Each fans    *)
(* out with asyncio.gather to the two retrievers.  The metadata half and  *)
(* the semantic half up to its first await run back to back; the          *)
(* semantic add and update then wait for the embedding (run_in_executor)  *)
(* and finish later.  A half that is suspended is a continuation:         *)
(* [op, docs, idx, meta_ok].  The call raises when either half raised.    *)
(***************************************************************************)
NoIdx == -1

NoCont == <<>>

\* up to the await of the semantic half: [sem, meta, cont, ok], with
\* meta_ok for an update (whether the metadata half returned)
StartAdd(s, m, docs) ==
    LET mr == MetaAddDocuments(m, docs)
    IN  [sem |-> s, meta |-> mr.st,
         cont |-> IF docs = <<>> THEN NoCont
                  ELSE <<[op |-> "add", docs |-> docs, idx |-> NoIdx, meta_ok |-> mr.ok]>>,
         ok |-> mr.ok]

StartUpdate(s, m, document_id, document) ==
    LET mr == MetaUpdateDocument(m, document_id, document)
        found == SemUpdateFound(s, document_id)
    IN  [sem |-> s, meta |-> mr.st,
         cont |-> IF found
                  THEN <<[op |-> "update", docs |-> <<document>>,
                          idx |-> s.id_to_index[document_id], meta_ok |-> mr.ok]>>
                  ELSE NoCont,
         ok |-> mr.ok /\ found, meta_ok |-> mr.ok]

\* the semantic half once its embedding is there
ResumeSem(s, c) ==
    IF c.op = "add" THEN SemAddDocuments(s, c.docs)
    ELSE SemUpdateWrite(s, c.idx, c.docs[1])

\* a call awaited on its own: both halves, then the continuation if any
Finish(r) ==
    [sem |-> IF r.cont = NoCont THEN r.sem ELSE ResumeSem(r.sem, r.cont[1]),
     meta |-> r.meta, ok |-> r.ok]

ApplyAdd(s, m, docs) == Finish(StartAdd(s, m, docs))

ApplyUpdate(s, m, document_id, document) ==
    Finish(StartUpdate(s, m, document_id, document))

\* a delete that undoes the half that returned when the other half raised
ApplyDeleteAtomic(s, m, document_id) ==
    LET sr == SemDeleteDocument(s, document_id)
        mr == MetaDeleteDocument(m, document_id)
    IN  IF sr.ok /\ mr.ok
        THEN [sem |-> sr.st, meta |-> mr.st, ok |-> TRUE, sem_ok |-> TRUE, meta_ok |-> TRUE]
        ELSE [sem |-> s, meta |-> m, ok |-> FALSE, sem_ok |-> sr.ok, meta_ok |-> mr.ok]

\* delete_document has no await in either half: [sem, meta, ok], and
\* whether each half returned
ApplyDelete(s, m, document_id) ==
    LET sr == SemDeleteDocument(s, document_id)
        mr == MetaDeleteDocument(m, document_id)
    IN  [sem |-> sr.st, meta |-> mr.st, ok |-> sr.ok /\ mr.ok,
         sem_ok |-> sr.ok, meta_ok |-> mr.ok]

(***************************************************************************)
(* The state machine.  hist is history the claims refer to: clean (no     *)
(* call has raised so far), deleted (ids whose delete completed and that  *)
(* no later add or update has brought back), and, for overlapping         *)
(* mutations, the state they started from (base) and the calls issued.    *)
(***************************************************************************)
\* DualRetriever(): semantic_weight 0.6, metadata_weight 0.4, weighted_sum
DefaultCfg == Construct(1200, 800, "weighted_sum")

\* no index file has been written
NoFile == <<>>

HistInit ==
    [clean |-> TRUE, deleted |-> {}, base |-> <<SemInit, MetaInit>>, calls |-> <<>>,
     saved |-> NoFile, saves |-> 0, engines |-> 1]

NoResults == <<>>

\* None where a call has no document argument
NoDocument == <<>>

\* the outcome of the last call: what it was, whether it returned (for a
\* predicate, what it returned), the ids it named, what it returned, for a
\* query its arguments and what each retriever returned or whether it
\* raised, for a fusion step the two lists it fused and for a call on one
\* document that document
Outcome(op, ok, ids) ==
    [op |-> op, ok |-> ok, ids |-> ids, results |-> NoResults,
     query |-> <<>>, filters |-> NoFilters, top_k |-> 0,
     semantic_results |-> NoResults, metadata_results |-> NoResults,
     semantic_ok |-> TRUE, metadata_ok |-> TRUE,
     document |-> NoDocument]

NoCall == Outcome("init", TRUE, {})

Quiescent == pending = <<>>

\* rows the index holds or is about to hold
RECURSIVE PendingRows(_)
PendingRows(p) ==
    IF p = <<>> THEN 0
    ELSE (IF Head(p).op = "add" THEN Len(Head(p).docs) ELSE 0) + PendingRows(Tail(p))

IdsOf(docs) == {docs[i].id : i \in DOMAIN docs}

Init ==
    /\ sem = SemInit
    /\ meta = MetaInit
    /\ cfg = DefaultCfg
    /\ pending = <<>>
    /\ last = NoCall
    /\ hist = HistInit
    /\ disk = NoFile

\* await retriever.add_documents(docs)
AddDocuments(docs) ==
    /\ Quiescent
    /\ sem.next_index + Len(docs) <= MaxSlots
    /\ LET r == ApplyAdd(sem, meta, docs)
       IN  /\ sem' = r.sem
           /\ meta' = r.meta
           /\ last' = Outcome("add", r.ok, IdsOf(docs))
           /\ hist' = [hist EXCEPT !.clean = hist.clean /\ r.ok,
                                   !.deleted = hist.deleted \ IdsOf(docs)]
    /\ UNCHANGED <<cfg, pending, disk>>

\* await retriever.update_document(document_id, document): gather raises
\* to the caller as soon as one half has raised; a semantic half that is
\* then still waiting for its embedding is left suspended
UpdateDocument(document_id, document) ==
    /\ Quiescent
    /\ \E r \in {StartUpdate(sem, meta, document_id, document)} :
           /\ sem' = IF r.ok THEN Finish(r).sem ELSE r.sem
           /\ meta' = r.meta
           /\ pending' = IF r.ok THEN pending ELSE r.cont
           /\ last' = [Outcome("update", r.ok, {document_id}) EXCEPT
                           !.semantic_ok = SemUpdateFound(sem, document_id),
                           !.metadata_ok = r.meta_ok,
                           !.document = document]
           /\ hist' = [hist EXCEPT !.clean = hist.clean /\ r.ok,
                                   !.deleted = hist.deleted \ {document_id, document.id}]
    /\ UNCHANGED <<cfg, disk>>

\* await retriever.delete_document(document_id)
DeleteDocument(document_id) ==
    /\ Quiescent
    /\ \E r \in {ApplyDelete(sem, meta, document_id)} :
           /\ sem' = r.sem
           /\ meta' = r.meta
           /\ last' = [Outcome("delete", r.ok, {document_id}) EXCEPT
                           !.semantic_ok = r.sem_ok, !.metadata_ok = r.meta_ok]
           /\ hist' = [hist EXCEPT !.clean = hist.clean /\ r.ok,
                                   !.deleted = IF r.ok THEN hist.deleted \cup {document_id}
                                               ELSE hist.deleted]
    /\ UNCHANGED <<cfg, pending, disk>>

TopKs == 0..MaxTopK

\* await retriever.retrieve(query, filters, top_k)
Retrieve(query, f, top_k) ==
    /\ Quiescent
    /\ cfg.status = "ok"
    /\ \E hits \in SearchOutcomes(sem, query, SearchK(sem, SideTopK(top_k))),
          order \in Orders(MetaCandidates(meta, f)) :
          \E r \in {DualRetrieve(cfg, sem, meta, query, f, top_k, hits, order)} :
              /\ meta' = r.meta
              /\ last' = [Outcome("retrieve", r.ok, {}) EXCEPT
                              !.results = r.results, !.query = query,
                              !.filters = f, !.top_k = top_k,
                              !.semantic_results = r.semantic.results,
                              !.metadata_results = r.metadata.results,
                              !.semantic_ok = r.semantic.ok,
                              !.metadata_ok = r.metadata.ok]
    /\ UNCHANGED <<sem, cfg, pending, hist, disk>>

Next ==
    \/ \E request \in Requests, top_k \in TopKs : Retrieve(request[1], request[2], top_k)
    \/ \E docs \in Batches : AddDocuments(docs)
    \/ \E document_id \in DocIds, document \in Catalogue : UpdateDocument(document_id, document)
    \/ \E document_id \in DocIds : DeleteDocument(document_id)

Spec == Init /\ [][Next]_vars

(***************************************************************************)
(* Claims about the fusion engine used one call at a time (Spec).          *)
(***************************************************************************)
\* ids the semantic retriever can cite: the 'id' of its stored records
SemCitable == {sem.documents[i].id : i \in DOMAIN sem.documents}

\* ids the metadata retriever can cite: the keys of its document table
MetaCitable == DOMAIN meta.documents

\* the id-sets of the topic, keyword, role, department and type indices
MetaIndexNames == {"topic_index", "keyword_index", "role_index",
                   "department_index", "type_index"}

MetaIndexed(doc_id) ==
    \E name \in MetaIndexNames : \E key \in DOMAIN meta[name] : doc_id \in meta[name][key]

\* C1: once delete_document(id) has completed, and until id is passed to
\* add_documents or update_document again, no retrieve call that returns
\* has a result whose citation source_id is id.
C1_NoCitationOfDeleted ==
    (last.op = "retrieve" /\ last.ok) =>
        \A i \in DOMAIN last.results : last.results[i].source_id \notin hist.deleted

\* C2: as long as every add_documents, update_document and delete_document
\* call so far has returned without error, the ids the semantic retriever
\* can cite are exactly the ids the metadata retriever can cite.
C2_IndicesAgreeOnIds == hist.clean => SemCitable = MetaCitable

\* C3: right after delete_document(id) has returned, id is in no metadata
\* structure (document table, five indices) and in no semantic structure
\* (slot -> record table, id -> slot map).
C3_DeleteRemovesEveryReference ==
    (last.op = "delete" /\ last.ok) =>
        \A doc_id \in last.ids :
            /\ doc_id \notin DOMAIN meta.documents
            /\ ~MetaIndexed(doc_id)
            /\ doc_id \notin SemCitable
            /\ doc_id \notin DOMAIN sem.id_to_index

\* C9: a retrieve call that returns, whatever top_k >= 0 it was given,
\* returns at most top_k results, in non-increasing order of fused score.
C9_AtMostTopKSorted ==
    (last.op = "retrieve" /\ last.ok) =>
        /\ Len(last.results) <= last.top_k
        /\ \A i \in 1..(Len(last.results) - 1) :
               RLeq(last.results[i + 1].relevance_score, last.results[i].relevance_score)

\* what retrieve would return had a retriever that raised returned []
FusedDegraded ==
    LET fused == FuseResults(cfg, last.semantic_results, last.metadata_results)
    IN  FinalRanking(fused.results, last.top_k)

\* C13: a retrieve call raises only when both retrievers raised; when
\* exactly one raised it returns what fusion and final ranking make of the
\* other retriever's results and an empty list.
C13_OneSideFailureDegrades ==
    last.op = "retrieve" =>
        /\ last.ok <=> (last.semantic_ok \/ last.metadata_ok)
        /\ (last.semantic_ok # last.metadata_ok) => last.results = FusedDegraded

\* rows of the index whose slot holds no record
EmptySlots == {idx \in 0..(Len(sem.vectors) - 1) : idx \notin DOMAIN sem.documents}

\* C21: a semantic retrieve over an index that still holds the vector of a
\* slot without a record (after delete_document) does not fail: it skips
\* such hits and returns results that cite stored records only.
C21_EmptySlotsSkipped ==
    (last.op = "retrieve" /\ EmptySlots # {}) =>
        /\ last.semantic_ok
        /\ \A i \in DOMAIN last.semantic_results :
               \E idx \in DOMAIN sem.documents :
                   sem.documents[idx] = last.semantic_results[i].doc

\* C27: after any sequence of add_documents, update_document and
\* delete_document the semantic retriever's slot bookkeeping is consistent:
\* id_to_index is injective, every slot it maps to holds a record with the
\* mapped id, every stored record's slot is the image of the record's id,
\* and next_index is the number of vectors in the index.
C27_SlotBookkeepingConsistent ==
    /\ \A x, y \in DOMAIN sem.id_to_index :
           sem.id_to_index[x] = sem.id_to_index[y] => x = y
    /\ \A x \in DOMAIN sem.id_to_index :
           /\ sem.id_to_index[x] \in DOMAIN sem.documents
           /\ sem.documents[sem.id_to_index[x]].id = x
    /\ \A idx \in DOMAIN sem.documents :
           /\ sem.documents[idx].id \in DOMAIN sem.id_to_index
           /\ sem.id_to_index[sem.documents[idx].id] = idx
    /\ sem.next_index = Len(sem.vectors)

(***************************************************************************)
(* Overlapping mutations (ConcSpec).  A caller may issue a mutation while  *)
(* the semantic half of an earlier one is still waiting for its embedding *)
(* (asyncio.gather or separate tasks over the same DualRetriever).  Issue* *)
(* runs what the event loop runs before the first suspension; Resume runs *)
(* one suspended half to its end, in whatever order the executor finishes.*)
(* hist.base is the state when the first of the overlapping calls was     *)
(* issued and hist.calls the calls issued since.                          *)
(***************************************************************************)
Call(op, document_id, docs) == [op |-> op, document_id |-> document_id, docs |-> docs]

CallIds(call) == IF call.op = "add" THEN IdsOf(call.docs) ELSE {call.document_id}

\* the history once one more call is issued
Issued(call) ==
    IF Quiescent
    THEN [hist EXCEPT !.base = <<sem, meta>>, !.calls = <<call>>]
    ELSE [hist EXCEPT !.calls = Append(hist.calls, call)]

CanIssue == Quiescent \/ Len(hist.calls) < MaxPending

\* add_documents up to the await of _encode_batch
IssueAdd(docs) ==
    /\ CanIssue
    /\ sem.next_index + PendingRows(pending) + Len(docs) <= MaxSlots
    /\ LET r == StartAdd(sem, meta, docs)
       IN  /\ sem' = r.sem
           /\ meta' = r.meta
           /\ pending' = pending \o r.cont
           /\ last' = Outcome("add", r.ok, IdsOf(docs))
    /\ hist' = Issued(Call("add", NoneVal, docs))
    /\ UNCHANGED <<cfg, disk>>

\* update_document up to the await of _encode_text
IssueUpdate(document_id, document) ==
    /\ CanIssue
    /\ \E r \in {StartUpdate(sem, meta, document_id, document)} :
           /\ sem' = r.sem
           /\ meta' = r.meta
           /\ pending' = pending \o r.cont
           /\ last' = Outcome("update", r.ok, {document_id})
    /\ hist' = Issued(Call("update", document_id, <<document>>))
    /\ UNCHANGED <<cfg, disk>>

\* delete_document: no suspension, it runs to its end when issued
IssueDelete(document_id) ==
    /\ CanIssue
    /\ \E r \in {ApplyDelete(sem, meta, document_id)} :
           /\ sem' = r.sem
           /\ meta' = r.meta
           /\ last' = Outcome("delete", r.ok, {document_id})
    /\ hist' = Issued(Call("delete", document_id, <<>>))
    /\ UNCHANGED <<cfg, pending, disk>>

\* the embedding of the i-th suspended half arrives and the half finishes
Resume(i) ==
    /\ i \in DOMAIN pending
    /\ sem' = ResumeSem(sem, pending[i])
    /\ pending' = [j \in 1..(Len(pending) - 1) |->
                      IF j < i THEN pending[j] ELSE pending[j + 1]]
    /\ last' = Outcome("resume", TRUE, CallIds(Call(pending[i].op, NoneVal, pending[i].docs)))
    /\ UNCHANGED <<meta, cfg, hist, disk>>

ConcNext ==
    \/ \E docs \in Batches : IssueAdd(docs)
    \/ \E document_id \in DocIds, document \in Catalogue : IssueUpdate(document_id, document)
    \/ \E document_id \in DocIds : IssueDelete(document_id)
    \/ \E i \in 1..MaxPending : Resume(i)

ConcSpec == Init /\ [][ConcNext]_vars

\* one call run alone from the state st = <<sem, meta>>
ApplyCall(st, call) ==
    LET r == CASE call.op = "add" -> ApplyAdd(st[1], st[2], call.docs)
               [] call.op = "update" ->
                      ApplyUpdate(st[1], st[2], call.document_id, call.docs[1])
               [] OTHER -> ApplyDelete(st[1], st[2], call.document_id)
    IN  <<r.sem, r.meta>>

Serial(st, first, second) == ApplyCall(ApplyCall(st, first), second)

\* C4: when two mutations naming the same id were issued concurrently and
\* both have finished, the two indices are in the state that one of the
\* two serial orders of the two calls produces from the state they started
\* in.
C4_ConcurrentMutationsSerialized ==
    (Quiescent /\ Len(hist.calls) = 2 /\ CallIds(hist.calls[1]) \cap CallIds(hist.calls[2]) # {}) =>
        <<sem, meta>> \in {Serial(hist.base, hist.calls[1], hist.calls[2]),
                           Serial(hist.base, hist.calls[2], hist.calls[1])}

(***************************************************************************)
(* Fusion and final ranking on their own (FusionSpec): an engine is        *)
(* constructed with weights and a method drawn from small sets, then one   *)
(* pair of sub-result lists goes through _fuse_results and the fused list *)
(* through _final_ranking.  The sub-result lists are what the two          *)
(* retrievers return: sorted by score, the semantic one possibly citing    *)
(* an id twice (two slots holding the same id), the metadata one not.      *)
(***************************************************************************)
MaxSide == 2

MaxRankK == 5

\* (semantic_weight, metadata_weight) in units of 1/WeightScale
WeightPairs == {<<1200, 798>>, <<1000, 1002>>, <<1200, 797>>, <<1000, 1003>>, <<1400, 800>>}

MethodNames == FusionMethods \cup {"borda"}

DocC1 ==
    [id |-> "C", title |-> <<"Leave", "Policy">>,
     content |-> <<"parental", "leave">>, vec |-> "v4",
     metadata |-> [DocA1.metadata EXCEPT !.document_type = "faq"]]

FusionScores == {<<1, 2>>, <<9, 10>>}

SideResult(doc, score, retriever_type) ==
    [source_id |-> doc.id, title |-> doc.title, doc |-> doc,
     citation_score |-> score, relevance_score |-> score,
     retriever_type |-> retriever_type]

SortedByScore(results) ==
    \A i \in 1..(Len(results) - 1) :
        RLeq(results[i + 1].relevance_score, results[i].relevance_score)

SemanticLists ==
    {l \in SeqsUpTo({SideResult(d, x, "semantic") :
                        d \in {DocA1, DocA2, DocB1}, x \in FusionScores}, MaxSide) :
        SortedByScore(l)}

MetadataLists ==
    {l \in SeqsUpTo({SideResult(d, x, "metadata") :
                        d \in {DocA1, DocB1, DocC1}, x \in FusionScores}, MaxSide) :
        /\ SortedByScore(l)
        /\ \A i, j \in DOMAIN l : l[i].source_id = l[j].source_id => i = j}

\* DualRetriever(semantic_weight, metadata_weight, fusion_method)
NewRetriever(semantic_weight, metadata_weight, fusion_method) ==
    /\ last.op = "init"
    /\ cfg' = Construct(semantic_weight, metadata_weight, fusion_method)
    /\ last' = Outcome("construct", cfg'.status = "ok", {})
    /\ UNCHANGED <<sem, meta, pending, hist, disk>>

\* self._fuse_results(semantic_results, metadata_results)
Fuse ==
    /\ last.op = "construct"
    /\ last.ok
    /\ \E semantic_results \in SemanticLists, metadata_results \in MetadataLists :
           LET r == FuseResults(cfg, semantic_results, metadata_results)
           IN  last' = [Outcome("fuse", r.ok, {}) EXCEPT
                           !.results = r.results,
                           !.semantic_results = semantic_results,
                           !.metadata_results = metadata_results]
    /\ UNCHANGED <<sem, meta, cfg, pending, hist, disk>>

\* self._final_ranking(fused_results, top_k)
Rank(top_k) ==
    /\ last.op = "fuse"
    /\ last.ok
    /\ last' = [last EXCEPT !.op = "rank", !.top_k = top_k,
                            !.results = FinalRanking(last.results, top_k)]
    /\ UNCHANGED <<sem, meta, cfg, pending, hist, disk>>

FusionNext ==
    \/ \E w \in WeightPairs, fusion_method \in MethodNames :
           NewRetriever(w[1], w[2], fusion_method)
    \/ Fuse
    \/ \E top_k \in 0..MaxRankK : Rank(top_k)

FusionSpec == Init /\ [][FusionNext]_vars

(***************************************************************************)
(* Claims about fusion, final ranking and construction (FusionSpec).       *)
(***************************************************************************)
CitedBy(results) == {results[i].source_id : i \in DOMAIN results}

FusedIds == CitedBy(last.semantic_results) \cup CitedBy(last.metadata_results)

Citing(results, doc_id) == {i \in DOMAIN results : results[i].source_id = doc_id}

\* the scores a side gives doc_id; a side that does not have it gives 0
SideScores(results, doc_id) ==
    IF Citing(results, doc_id) = {} THEN {RZero}
    ELSE {results[i].relevance_score : i \in Citing(results, doc_id)}

\* weight / (60 + rank) for the places of doc_id on a side, 0 without any
SideReciprocals(results, doc_id, weight) ==
    IF Citing(results, doc_id) = {} THEN {RZero}
    ELSE {<<weight, WeightScale * (60 + i)>> : i \in Citing(results, doc_id)}

\* the one fused result of doc_id
FusedOf(doc_id) == last.results[CHOOSE i \in DOMAIN last.results : last.results[i].source_id = doc_id]

FusedOnce == \A doc_id \in FusedIds : Cardinality(Citing(last.results, doc_id)) = 1

FusedWith(method) == last.op = "fuse" /\ last.ok /\ cfg.fusion_method = method

RMax(x, y) == IF RLess(x, y) THEN y ELSE x

\* C23: fusion yields exactly one result per document id of either list;
\* it carries the record and citation of a semantic result of that id when
\* there is one and of the metadata result otherwise, semantic_score and
\* metadata_score (0 for a missing side), the fused score, and
\* has_semantic / has_metadata true exactly for the sides citing the id.
C23_FusionGroupsByDocumentId ==
    (last.op = "fuse" /\ last.ok) =>
        /\ FusedOnce
        /\ CitedBy(last.results) = FusedIds
        /\ \A doc_id \in FusedIds :
               LET fused == FusedOf(doc_id)
                   in_semantic == Citing(last.semantic_results, doc_id)
                   in_metadata == Citing(last.metadata_results, doc_id)
               IN  /\ fused.has_semantic = (in_semantic # {})
                   /\ fused.has_metadata = (in_metadata # {})
                   /\ fused.fused_score = fused.relevance_score
                   /\ IF in_semantic # {}
                      THEN \E i \in in_semantic :
                               /\ fused.doc = last.semantic_results[i].doc
                               /\ fused.title = last.semantic_results[i].title
                               /\ fused.citation_score = last.semantic_results[i].citation_score
                               /\ fused.semantic_score = last.semantic_results[i].relevance_score
                      ELSE /\ fused.semantic_score = RZero
                           /\ \E i \in in_metadata :
                                  /\ fused.doc = last.metadata_results[i].doc
                                  /\ fused.title = last.metadata_results[i].title
                                  /\ fused.citation_score = last.metadata_results[i].citation_score
                   /\ IF in_metadata # {}
                      THEN \E i \in in_metadata :
                               fused.metadata_score = last.metadata_results[i].relevance_score
                      ELSE fused.metadata_score = RZero

\* one document was on both sides with different records and scores, one
\* on the semantic side only and one on the metadata side only
C23_Witness ==
    /\ last.op = "fuse" /\ last.ok
    /\ \E doc_id \in FusedIds :
           /\ FusedOf(doc_id).has_semantic /\ FusedOf(doc_id).has_metadata
           /\ \E i \in Citing(last.semantic_results, doc_id),
                 j \in Citing(last.metadata_results, doc_id) :
                  /\ last.semantic_results[i].doc # last.metadata_results[j].doc
                  /\ last.semantic_results[i].citation_score
                        # last.metadata_results[j].citation_score
    /\ \E doc_id \in FusedIds : FusedOf(doc_id).has_semantic /\ ~FusedOf(doc_id).has_metadata
    /\ \E doc_id \in FusedIds : ~FusedOf(doc_id).has_semantic /\ FusedOf(doc_id).has_metadata

\* C5: under weighted_sum every document of either list has one fused
\* result, whose score is semantic_weight * s + metadata_weight * m for its
\* score s on the semantic side and m on the metadata side, 0 where it is
\* missing.
C5_WeightedSum ==
    FusedWith("weighted_sum") =>
        /\ FusedOnce
        /\ \A doc_id \in FusedIds :
               \E s \in SideScores(last.semantic_results, doc_id),
                  m \in SideScores(last.metadata_results, doc_id) :
                   REq(FusedOf(doc_id).relevance_score,
                       RAdd(RScale(cfg.semantic_weight, WeightScale, s),
                            RScale(cfg.metadata_weight, WeightScale, m)))

\* a document with different scores on the two sides and one on a single
\* side were fused by weighted sum, the weights being different
C5_Witness ==
    /\ FusedWith("weighted_sum")
    /\ cfg.semantic_weight # cfg.metadata_weight
    /\ \E doc_id \in FusedIds :
           /\ FusedOf(doc_id).has_semantic /\ FusedOf(doc_id).has_metadata
           /\ ~REq(FusedOf(doc_id).semantic_score, FusedOf(doc_id).metadata_score)
    /\ \E doc_id \in FusedIds : ~FusedOf(doc_id).has_metadata

\* C6: under max every document of either list has one fused result, whose
\* score is the larger of its scores on the sides that have it.
C6_Max ==
    FusedWith("max") =>
        /\ FusedOnce
        /\ \A doc_id \in FusedIds :
               LET on_semantic == Citing(last.semantic_results, doc_id) # {}
                   on_metadata == Citing(last.metadata_results, doc_id) # {}
               IN  \E s \in SideScores(last.semantic_results, doc_id),
                      m \in SideScores(last.metadata_results, doc_id) :
                       REq(FusedOf(doc_id).relevance_score,
                           IF on_semantic /\ on_metadata THEN RMax(s, m)
                           ELSE IF on_semantic THEN s
                           ELSE IF on_metadata THEN m ELSE RZero)

\* a document whose metadata score is the larger one was fused by max
C6_Witness ==
    /\ FusedWith("max")
    /\ \E doc_id \in FusedIds :
           /\ FusedOf(doc_id).has_semantic /\ FusedOf(doc_id).has_metadata
           /\ RLess(FusedOf(doc_id).semantic_score, FusedOf(doc_id).metadata_score)
           /\ REq(FusedOf(doc_id).relevance_score, FusedOf(doc_id).metadata_score)

\* C7: under rrf every document of either list has one fused result, whose
\* score is the sum over the sides that have it of the side's weight
\* divided by 60 + the 1-based place of its result in that side's list.
C7_ReciprocalRank ==
    FusedWith("rrf") =>
        /\ FusedOnce
        /\ \A doc_id \in FusedIds :
               \E s \in SideReciprocals(last.semantic_results, doc_id, cfg.semantic_weight),
                  m \in SideReciprocals(last.metadata_results, doc_id, cfg.metadata_weight) :
                   REq(FusedOf(doc_id).relevance_score, RAdd(s, m))

\* a document second on the semantic side and first on the metadata side
\* was fused by rrf
C7_Witness ==
    /\ FusedWith("rrf")
    /\ \E doc_id \in FusedIds :
           /\ Citing(last.semantic_results, doc_id) = {2}
           /\ Citing(last.metadata_results, doc_id) = {1}
           /\ REq(FusedOf(doc_id).relevance_score,
                  RAdd(<<cfg.semantic_weight, WeightScale * 62>>,
                       <<cfg.metadata_weight, WeightScale * 61>>))

Ranked == last.op = "rank" /\ last.top_k >= 1

Titles == {d.title : d \in Catalogue \cup {DocC1}}

\* how often a title occurs among the results placed after the first
\* top_k div 2 positions
BeyondHalf(title) ==
    Cardinality({i \in DOMAIN last.results :
                    i > last.top_k \div 2 /\ last.results[i].title = title})

\* C8: for top_k >= 1 no title occurs more than max(1, top_k div 3) times
\* among the results the final ranking places beyond the first top_k div 2
\* positions.
C8_DiversityCap ==
    Ranked =>
        \A title \in Titles :
            BeyondHalf(title) <= (IF last.top_k \div 3 > 1 THEN last.top_k \div 3 ELSE 1)

\* the cap kept a result out: three documents were fused, the ranking had
\* room for all three and returned fewer, one of them beyond the first
\* top_k div 2 positions
C8_Witness ==
    /\ Ranked
    /\ last.top_k >= 3
    /\ Cardinality(FusedIds) = 3
    /\ Len(last.results) < 3
    /\ \E title \in Titles : BeyondHalf(title) = 1

UnknownMethodInit ==
    /\ sem = SemInit
    /\ meta = MetaInit
    /\ cfg = Construct(1200, 800, "borda")
    /\ pending = <<>>
    /\ last = NoCall
    /\ hist = HistInit
    /\ disk = NoFile

UnknownMethodSpec == UnknownMethodInit /\ [][Next]_vars

\* C11: an engine with an unrecognized fusion method is constructed
\* without error, and every retrieve call on it raises.
C11_UnknownMethodFailsEveryQuery ==
    /\ cfg.status = "ok"
    /\ last.op = "retrieve" => ~last.ok

(***************************************************************************)
(* FilterCriteria.matches_document on its own (MatchSpec): criteria with   *)
(* one axis set, or several, against the metadata blocks of the documents *)
(* above and variants of them.                                             *)
(***************************************************************************)
MatchFilters ==
    {DefaultFilter, PolicyFilter, EngineerFilter,
     [DefaultFilter EXCEPT !.target_role = "manager"],
     [DefaultFilter EXCEPT !.target_role = "analyst", !.department = "it"],
     [DefaultFilter EXCEPT !.department = "it"],
     [DefaultFilter EXCEPT !.exclude_types = {"guide", "faq"}],
     [DefaultFilter EXCEPT !.required_topics = {"Onboarding", "it"}],
     [DefaultFilter EXCEPT !.keywords = {"checklist"}],
     [DefaultFilter EXCEPT !.max_age_days = 90],
     [DefaultFilter EXCEPT !.min_importance_score = 50],
     [DefaultFilter EXCEPT !.min_popularity_score = 60],
     [DefaultFilter EXCEPT !.max_access_level = "public"],
     [DefaultFilter EXCEPT !.max_access_level = "restricted", !.document_types = {"procedure"}]}

MatchMetadata ==
    {[d.metadata EXCEPT !.popularity_score = p] :
        d \in {DocA1, DocA2, DocB1, DocC1}, p \in {50, 80}}

\* filters.matches_document(metadata)
Matches(f, md) ==
    /\ last' = [Outcome("matches", MatchesDocument(f, md), {}) EXCEPT
                   !.filters = f, !.document = md]
    /\ UNCHANGED <<sem, meta, cfg, pending, hist, disk>>

MatchNext == \E f \in MatchFilters, md \in MatchMetadata : Matches(f, md)

MatchSpec == Init /\ [][MatchNext]_vars

\* the axes of a criteria, each as the test a document has to pass; the
\* role axis is is_relevant_for_role, a set of required topics or keywords
\* is passed by a document that has one of them (tags count as keywords)
RoleAxis(f, md) ==
    f.target_role # NoneVal =>
        \/ md.target_roles = {}
        \/ Lower(f.target_role) \in LowerAll(md.target_roles)
        \/ (f.department # NoneVal /\ md.department # NoneVal
            /\ Lower(f.department) = Lower(md.department))

TypeAxis(f, md) == f.document_types # {} => md.document_type \in f.document_types

ExcludeAxis(f, md) == md.document_type \notin f.exclude_types

TopicAxis(f, md) ==
    f.required_topics # {} => LowerAll(f.required_topics) \cap LowerAll(md.topics) # {}

KeywordAxis(f, md) ==
    f.keywords # {} => LowerAll(f.keywords) \cap LowerAll(md.keywords \cup md.tags) # {}

FreshAxis(f, md) ==
    f.max_age_days # 0 => (md.age_days # NoAge /\ md.age_days <= f.max_age_days)

ImportanceAxis(f, md) == md.importance_score >= f.min_importance_score

PopularityAxis(f, md) == md.popularity_score >= f.min_popularity_score

AccessAxis(f, md) == AccessRank(md.access_level) <= AccessRank(f.max_access_level)

EveryAxis(f, md) ==
    /\ RoleAxis(f, md) /\ TypeAxis(f, md) /\ ExcludeAxis(f, md)
    /\ TopicAxis(f, md) /\ KeywordAxis(f, md) /\ FreshAxis(f, md)
    /\ ImportanceAxis(f, md) /\ PopularityAxis(f, md) /\ AccessAxis(f, md)

\* C12: matches_document returns true exactly when the document passes
\* every axis set on the criteria (role/department, allowed types, excluded
\* types, required topics, required keywords, freshness, minimum
\* importance, minimum popularity, maximum access level).
C12_MatchesIffEveryAxisPasses ==
    last.op = "matches" => (last.ok <=> EveryAxis(last.filters, last.document))


(***************************************************************************)
(* Persistence and partial fan-out (PersistSpec).  A process builds an    *)
(* engine, adds documents, writes the index files, and a later process    *)
(* builds an engine, possibly on another embedding model, and loads them. *)
(* An update raises as soon as one half raises; the semantic half may     *)
(* then still be waiting for its embedding and is resumed later.          *)
(***************************************************************************)
\* the models an engine is built on
ModelNames == {"all-MiniLM-L6-v2", "all-mpnet-base-v2"}

\* SentenceTransformer(model_name).get_sentence_embedding_dimension()
ModelDimension(model_name) == IF model_name = "all-MiniLM-L6-v2" THEN 384 ELSE 768

\* SemanticRetriever(model_name=model_name)
SemNew(model_name) ==
    [SemInit EXCEPT !.model_name = model_name, !.dimension = ModelDimension(model_name)]

\* the key json.dump writes for the slot number idx
JsonKey(idx) == ToString(idx)

\* int(k) of a key of the file
SlotOf(k) == CHOOSE idx \in 0..(MaxSlots + 1) : JsonKey(idx) = k

\* json.dump(..., default=str) of one record: a last_updated timestamp is
\* written as the string str() makes of it, everything else as it is
JsonRecord(doc) ==
    IF doc.metadata.age_days = NoAge THEN doc
    ELSE [doc EXCEPT !.metadata =
             [k \in DOMAIN doc.metadata \cup {"last_updated_str"} |->
                 IF k = "last_updated_str" THEN TRUE ELSE doc.metadata[k]]]

\* save_index: the .faiss file and the .metadata.json file
SemSaveIndex(s) ==
    [index |-> s.vectors,
     metadata |->
       [documents |-> [k \in {JsonKey(idx) : idx \in DOMAIN s.documents} |->
                          JsonRecord(s.documents[SlotOf(k)])],
        id_to_index |-> s.id_to_index,
        next_index |-> s.next_index,
        model_name |-> s.model_name,
        dimension |-> s.dimension]]

\* load_index: [st, ok]; read_index raises when there is no file
SemLoadIndex(s, file) ==
    IF file = NoFile THEN [st |-> s, ok |-> FALSE]
    ELSE LET data == file.metadata
         IN  [st |-> [s EXCEPT
                        !.vectors = file.index,
                        !.documents = [idx \in {SlotOf(k) : k \in DOMAIN data.documents} |->
                                          data.documents[JsonKey(idx)]],
                        !.id_to_index = data.id_to_index,
                        !.next_index = data.next_index,
                        !.model_name = data.model_name],
              ok |-> TRUE]

\* a new process: DualRetriever(semantic_model=semantic_model)
Reconstruct(semantic_model) ==
    /\ Quiescent
    /\ hist.engines < MaxEngines
    /\ sem' = SemNew(semantic_model)
    /\ meta' = MetaInit
    /\ last' = Outcome("new", TRUE, {})
    /\ hist' = [hist EXCEPT !.engines = hist.engines + 1]
    /\ UNCHANGED <<cfg, pending, disk>>

\* retriever.save_indices(base_path)
SaveIndices ==
    /\ Quiescent
    /\ hist.saves < MaxSaves
    /\ disk' = SemSaveIndex(sem)
    /\ hist' = [hist EXCEPT !.saved = sem, !.saves = hist.saves + 1]
    /\ last' = Outcome("save", TRUE, {})
    /\ UNCHANGED <<sem, meta, cfg, pending>>

\* retriever.load_indices(base_path)
LoadIndices ==
    /\ Quiescent
    /\ \E r \in {SemLoadIndex(sem, disk)} :
           /\ sem' = r.st
           /\ last' = Outcome("load", r.ok, {})
    /\ UNCHANGED <<meta, cfg, pending, hist, disk>>

\* the documents the first process adds and the revisions later written
AddedDocs == {DocA1, DocB1}

Revisions == {DocA2}

PersistNext ==
    \/ \E semantic_model \in ModelNames : Reconstruct(semantic_model)
    \/ \E doc \in AddedDocs : AddDocuments(<<doc>>)
    \/ SaveIndices
    \/ LoadIndices
    \/ \E document_id \in DocIds, document \in Revisions : UpdateDocument(document_id, document)
    \/ \E document_id \in DocIds : DeleteDocument(document_id)
    \/ Resume(1)

PersistSpec == Init /\ [][PersistNext]_vars


(***************************************************************************)
(* Claims about partial fan-out and persistence (PersistSpec).             *)
(***************************************************************************)
InSem(document_id) == document_id \in DOMAIN sem.id_to_index

InMeta(document_id) == document_id \in DOMAIN meta.documents

OnlySem(document_id) == InSem(document_id) /\ ~InMeta(document_id)

OnlyMeta(document_id) == InMeta(document_id) /\ ~InSem(document_id)

\* the write a suspended semantic half will make
SuspendedWrite(document_id, document) ==
    [op |-> "update", docs |-> <<document>>, idx |-> sem.id_to_index[document_id],
     meta_ok |-> FALSE]

\* a delete of an id held by one retriever raises, removes the id from the
\* holder and leaves the other retriever as it was
DeleteIsPartial(document_id) ==
    /\ ~last'.ok
    /\ OnlySem(document_id) =>
           /\ document_id \notin DOMAIN sem'.id_to_index
           /\ sem.id_to_index[document_id] \notin DOMAIN sem'.documents
           /\ meta' = meta
    /\ OnlyMeta(document_id) =>
           /\ document_id \notin DOMAIN meta'.documents
           /\ sem' = sem

\* an update of an id held by the metadata retriever alone
UpdateIsPartialMeta(document_id, document) ==
    /\ ~last'.ok
    /\ meta'.documents[document_id] = document
    /\ document_id \in IdxGet(meta'.type_index, document.metadata.document_type)
    /\ sem' = sem

C15_AbsentIdFailsWithoutChange ==
    [][\A document_id \in DocIds :
          /\ \A document \in Revisions :
                UpdateDocument(document_id, document) =>
                    /\ ~InSem(document_id) =>
                           ~last'.semantic_ok /\ sem' = sem /\ pending' = pending
                    /\ ~InMeta(document_id) =>
                           ~last'.metadata_ok /\ meta' = meta
          /\ DeleteDocument(document_id) =>
                /\ ~InSem(document_id) => ~last'.semantic_ok /\ sem' = sem
                /\ ~InMeta(document_id) => ~last'.metadata_ok /\ meta' = meta]_vars

\* an update has raised in the metadata retriever alone, whose table does
\* not hold the id
C15_Witness ==
    /\ last.op = "update"
    /\ ~last.metadata_ok /\ last.semantic_ok
    /\ \A document_id \in last.ids : document_id \notin DOMAIN meta.documents

\* C16: load_index after save_index leaves the retriever with the index
\* rows, the slot -> record and id -> slot maps, the next-slot counter, the
\* dimension and the model name that were saved, whatever it held before.
C16_SaveLoadRoundTrip ==
    (last.op = "load" /\ last.ok) =>
        /\ sem.vectors = hist.saved.vectors
        /\ sem.documents = hist.saved.documents
        /\ sem.id_to_index = hist.saved.id_to_index
        /\ sem.next_index = hist.saved.next_index
        /\ sem.dimension = hist.saved.dimension
        /\ sem.model_name = hist.saved.model_name

\* C17: after load_indices the metadata retriever's document table and
\* inverted indices hold exactly the documents restored into the semantic
\* retriever.
C17_LoadRebuildsMetadata ==
    (last.op = "load" /\ last.ok) =>
        /\ MetaCitable = SemCitable
        /\ \A document_id \in SemCitable : MetaIndexed(document_id)


(***************************************************************************)
(* The three-document scenario (ScenarioSpec): A, B and C are added in    *)
(* one batch, in any order and with any embeddings, and then queried.     *)
(***************************************************************************)
\* await retriever.add_documents(docs) on the empty engine
IndexScenario(docs) ==
    /\ Quiescent
    /\ sem = SemInit
    /\ \E r \in {ApplyAdd(sem, meta, docs)} :
           /\ sem' = r.sem
           /\ meta' = r.meta
           /\ last' = Outcome("add", r.ok, IdsOf(docs))
    /\ UNCHANGED <<cfg, pending, hist, disk>>

\* the batches that hold A, B and C once each
ScenarioBatches ==
    {docs \in [1..3 -> ScenarioDocs] : {docs[i].id : i \in 1..3} = {"A", "B", "C"}}

ScenarioNext ==
    \/ \E docs \in ScenarioBatches : IndexScenario(docs)
    \/ \E top_k \in TopKs : Retrieve(QueryScenario, PolicyFilter, top_k)

ScenarioSpec == Init /\ [][ScenarioNext]_vars

MetaRetrieveAll(m, query, order) ==
    MetaRetrieve(m, query, NoFilters, Cardinality(DOMAIN m.documents), order)

\* await retriever.metadata_retriever.retrieve(query, top_k=len(documents))
Probe(query) ==
    /\ Quiescent
    /\ meta.documents # <<>>
    /\ \E order \in Orders(MetaCandidates(meta, NoFilters)) :
          \E r \in {MetaRetrieveAll(meta, query, order)} :
              /\ meta' = r.st
              /\ last' = [Outcome("probe", r.ok, {}) EXCEPT
                              !.query = query, !.results = r.results,
                              !.top_k = Cardinality(DOMAIN meta.documents)]
    /\ UNCHANGED <<sem, cfg, pending, hist, disk>>

SurfaceNext ==
    \/ \E doc \in SurfaceDocs : AddDocuments(<<doc>>)
    \/ \E query \in SurfaceQueries : Probe(query)

SurfaceSpec == Init /\ [][SurfaceNext]_vars

\* query contains one of the title terms of the record
HasTitleTerm(query, doc_data) ==
    \E i \in DOMAIN query : Lower(query[i]) \in Range(LowerSeq(doc_data.title))

\* the query returns the document with a score above zero
Surfaces(query, doc_id) ==
    \A order \in Orders(DOMAIN meta.documents) :
        LET r == MetaRetrieveAll(meta, query, order)
        IN  /\ r.ok
            /\ \E i \in DOMAIN r.results :
                   /\ r.results[i].source_id = doc_id
                   /\ r.results[i].relevance_score[1] > 0

\* C19: for every document the retriever holds there is a query with one
\* of the document's title terms in it that, asked without filters for as
\* many results as there are documents, returns the document with a
\* nonzero score.
C19_TitleQuerySurfaces ==
    \A doc_id \in DOMAIN meta.documents :
        \E query \in SurfaceQueries :
            /\ HasTitleTerm(query, meta.documents[doc_id])
            /\ Surfaces(query, doc_id)

(***************************************************************************)
(* Access levels (AccessSpec): documents of every access level are added  *)
(* and queried under criteria that bound the access level.                *)
(***************************************************************************)
AccessNext ==
    \/ \E docs \in Batches : AddDocuments(docs)
    \/ \E f \in AccessFilters, top_k \in TopKs : Retrieve(QueryLeave, f, top_k)

AccessSpec == Init /\ [][AccessNext]_vars

\* the levels strictly above a level
LevelsAbove(level) ==
    CASE level = "public" -> {"internal", "confidential", "restricted"}
      [] level = "internal" -> {"confidential", "restricted"}
      [] level = "confidential" -> {"restricted"}
      [] level = "restricted" -> {}

\* no result of the list cites a record above the bound
WithinAccess(results, level) ==
    \A i \in DOMAIN results : results[i].doc.metadata.access_level \notin LevelsAbove(level)

\* C20: public < internal < confidential < restricted, and a retrieve call
\* given criteria returns no document above the criteria's max_access_level,
\* from the semantic retriever, the metadata retriever or the fusion engine.
C20_NoResultAboveMaxAccess ==
    /\ AccessRank("public") < AccessRank("internal")
    /\ AccessRank("internal") < AccessRank("confidential")
    /\ AccessRank("confidential") < AccessRank("restricted")
    /\ (last.op = "retrieve" /\ last.filters.present) =>
           /\ WithinAccess(last.semantic_results, last.filters.max_access_level)
           /\ WithinAccess(last.metadata_results, last.filters.max_access_level)
           /\ WithinAccess(last.results, last.filters.max_access_level)

\* a query bounded at internal was answered with the internal document
\* while a confidential one was held by both retrievers
C20_Witness ==
    /\ last.op = "retrieve" /\ last.ok
    /\ last.filters.max_access_level = "internal"
    /\ last.results # <<>>
    /\ \E idx \in DOMAIN sem.documents :
           sem.documents[idx].metadata.access_level = "confidential"
    /\ \E doc_id \in DOMAIN meta.documents :
           meta.documents[doc_id].metadata.access_level = "confidential"

(***************************************************************************)
(* The metadata retriever on its own (MetaSpec): add_documents,           *)
(* update_document, delete_document and retrieve are called on a          *)
(* MetadataRetriever directly, with records whose metadata validates and  *)
(* one whose importance_score is 1.5.                                      *)
(***************************************************************************)
\* a record whose metadata DocumentMetadata rejects
DocBad == [DocB1 EXCEPT !.metadata.importance_score = 150]

MetaDocs == Catalogue \cup {DocBad}

QueryTitle == <<"Leave">>

MetaRequests ==
    {<<query, f>> : query \in {QueryTitle, QueryLeave},
                    f \in {NoFilters, PolicyFilter, EngineerFilter, KeywordFilter, TopicFilter}}

\* MetadataRetriever.get_stats()
MetaGetStats(m) ==
    [total_documents |-> Cardinality(DOMAIN m.documents),
     unique_topics |-> Cardinality(DOMAIN m.topic_index),
     unique_keywords |-> Cardinality(DOMAIN m.keyword_index),
     unique_roles |-> Cardinality(DOMAIN m.role_index),
     unique_departments |-> Cardinality(DOMAIN m.department_index),
     document_types |-> Cardinality(DOMAIN m.type_index)]

\* await metadata_retriever.add_documents(docs)
MetaAdd(docs) ==
    /\ \E r \in {MetaAddDocuments(meta, docs)} :
          /\ meta' = r.st
          /\ last' = Outcome("add", r.ok, IdsOf(docs))
    /\ UNCHANGED <<sem, cfg, pending, hist, disk>>

\* await metadata_retriever.update_document(document_id, document)
MetaUpdate(document_id, document) ==
    /\ \E r \in {MetaUpdateDocument(meta, document_id, document)} :
          /\ meta' = r.st
          /\ last' = [Outcome("update", r.ok, {document_id}) EXCEPT !.document = document]
    /\ UNCHANGED <<sem, cfg, pending, hist, disk>>

\* await metadata_retriever.delete_document(document_id)
MetaDelete(document_id) ==
    /\ \E r \in {MetaDeleteDocument(meta, document_id)} :
          /\ meta' = r.st
          /\ last' = Outcome("delete", r.ok, {document_id})
    /\ UNCHANGED <<sem, cfg, pending, hist, disk>>

\* await metadata_retriever.retrieve(query, filters, top_k)
MetaQuery(query, f, top_k) ==
    /\ \E order \in Orders(MetaCandidates(meta, f)) :
          \E r \in {MetaRetrieve(meta, query, f, top_k, order)} :
              /\ meta' = r.st
              /\ last' = [Outcome("retrieve", r.ok, {}) EXCEPT
                              !.query = query, !.filters = f, !.top_k = top_k,
                              !.results = r.results]
    /\ UNCHANGED <<sem, cfg, pending, hist, disk>>

MetaNext ==
    \/ \E docs \in SeqsUpTo(MetaDocs, MaxBatch) : MetaAdd(docs)
    \/ \E document_id \in DocIds, document \in MetaDocs : MetaUpdate(document_id, document)
    \/ \E document_id \in DocIds : MetaDelete(document_id)
    \/ \E rq \in MetaRequests, top_k \in 1..MaxSlots : MetaQuery(rq[1], rq[2], top_k)

MetaSpec == Init /\ [][MetaNext]_vars

\* the ids a result list cites
Returned(results) == {results[i].source_id : i \in DOMAIN results}

\* the id is in the id-set of an allowed type, of the requested role, of the
\* requested department, of every required topic and keyword, and in no
\* excluded type's id-set
InIdSets(m, f, d) ==
    /\ f.document_types # {} => \E t \in f.document_types : d \in IdxGet(m.type_index, t)
    /\ \A t \in f.exclude_types : d \notin IdxGet(m.type_index, t)
    /\ f.target_role # NoneVal => d \in IdxGet(m.role_index, Lower(f.target_role))
    /\ f.department # NoneVal => d \in IdxGet(m.department_index, Lower(f.department))
    /\ \A t \in LowerAll(f.required_topics) : d \in IdxGet(m.topic_index, t)
    /\ \A k \in LowerAll(f.keywords) : d \in IdxGet(m.keyword_index, k)

\* the stored documents that pass both stages of filtering
Survivors(m, f) ==
    {d \in DOMAIN m.documents : InIdSets(m, f, d) /\ MatchesDocument(f, m.documents[d].metadata)}

\* C22: a metadata retrieve with filters returns only documents that are in
\* the id-sets the criteria name and satisfy matches_document, and returns
\* every such document when top_k is at least the corpus size.
C22_FilteredRetrieveReturnsSurvivors ==
    (last.op = "retrieve" /\ last.filters.present) =>
        /\ Returned(last.results) \subseteq Survivors(meta, last.filters)
        /\ last.top_k >= Cardinality(DOMAIN meta.documents) =>
               Survivors(meta, last.filters) \subseteq Returned(last.results)

\* every stored record carries metadata that validates
StoredValid(m) == \A d \in DOMAIN m.documents : MetadataValid(m.documents[d].metadata)

\* the lowercased values the stored records carry on each axis
CarriedTopics(m) == UNION {LowerAll(m.documents[d].metadata.topics) : d \in DOMAIN m.documents}

CarriedKeywords(m) ==
    UNION {LowerAll(m.documents[d].metadata.keywords \cup m.documents[d].metadata.tags) :
              d \in DOMAIN m.documents}

CarriedRoles(m) == UNION {LowerAll(m.documents[d].metadata.target_roles) : d \in DOMAIN m.documents}

CarriedDepartments(m) ==
    {Lower(m.documents[d].metadata.department) :
        d \in {x \in DOMAIN m.documents : m.documents[x].metadata.department # NoneVal}}

CarriedTypes(m) == {m.documents[d].metadata.document_type : d \in DOMAIN m.documents}

\* C24: after any sequence of add_documents, update_document and
\* delete_document, get_stats reports the number of stored documents and,
\* per axis, the number of distinct lowercased values the stored documents
\* carry.
C24_StatsCountStoredValues ==
    StoredValid(meta) =>
        MetaGetStats(meta) =
            [total_documents |-> Cardinality(DOMAIN meta.documents),
             unique_topics |-> Cardinality(CarriedTopics(meta)),
             unique_keywords |-> Cardinality(CarriedKeywords(meta)),
             unique_roles |-> Cardinality(CarriedRoles(meta)),
             unique_departments |-> Cardinality(CarriedDepartments(meta)),
             document_types |-> Cardinality(CarriedTypes(meta))]

\* C25: the score the metadata retriever computes for a candidate lies in
\* [0, 1], so a retrieve over records with valid metadata never fails while
\* building a citation.
C25_MetadataScoreInUnitInterval ==
    (last.op = "retrieve" /\ StoredValid(meta)) =>
        /\ \A d \in MetaCandidates(meta, last.filters) :
               CitationValid(MetaResult(last.query, last.filters, d,
                                        meta.documents[d]).citation_score)
        /\ last.ok

\* the id-set of every term of the index is the set of stored documents
\* for which Terms gives that term
IndexAgrees(m, ix, Terms(_)) ==
    \A t \in (DOMAIN ix) \cup UNION {Terms(m.documents[d].metadata) : d \in DOMAIN m.documents} :
        IdxGet(ix, t) = {d \in DOMAIN m.documents : t \in Terms(m.documents[d].metadata)}

\* C26: after any sequence of add_documents (also of an id already
\* indexed), update_document and delete_document, every inverted index
\* agrees with the stored records: the id-set of a term is the set of
\* stored documents whose current metadata carries the term on that axis.
C26_IndicesAgreeWithRecords ==
    StoredValid(meta) =>
        /\ IndexAgrees(meta, meta.topic_index, LAMBDA md : LowerAll(md.topics))
        /\ IndexAgrees(meta, meta.keyword_index, LAMBDA md : LowerAll(md.keywords \cup md.tags))
        /\ IndexAgrees(meta, meta.role_index, LAMBDA md : LowerAll(md.target_roles))
        /\ IndexAgrees(meta, meta.department_index,
                       LAMBDA md : IF md.department # NoneVal THEN {Lower(md.department)} ELSE {})
        /\ IndexAgrees(meta, meta.type_index, LAMBDA md : {md.document_type})

\* the stored documents the semantic retriever's filter check admits
MatchingDocuments(m, f) ==
    {d \in DOMAIN m.documents : MatchesDocument(f, m.documents[d].metadata)}

\* C28: for a corpus whose indices agree with its records and any
\* FilterCriteria, the candidates the metadata retriever admits are the
\* documents for which matches_document, the semantic retriever's filter
\* check, is true.
C28_RetrieversApplySameFilter ==
    (/\ last.op = "retrieve"
     /\ last.filters.present
     /\ StoredValid(meta)
     /\ C26_IndicesAgreeWithRecords) =>
        MetaCandidates(meta, last.filters) = MatchingDocuments(meta, last.filters)

\* C29: a retrieve call on the metadata retriever, with or without
\* filters, leaves the document table and the five inverted indices as
\* they were, the set of terms of each index included, so get_stats
\* returns the same values before and after the call.
C29_RetrieveIsReadOnly ==
    [][\A rq \in MetaRequests, top_k \in 1..MaxSlots :
          MetaQuery(rq[1], rq[2], top_k) =>
              /\ meta' = meta
              /\ MetaGetStats(meta') = MetaGetStats(meta)]_vars

\* C30: an add_documents or update_document call that fails because a
\* record's metadata does not validate leaves the document table and all
\* inverted indices as they were, and no stored record has invalid
\* metadata.
C30_RejectedMutationHasNoEffect ==
    [][/\ \A docs \in SeqsUpTo(MetaDocs, MaxBatch) :
             (MetaAdd(docs) /\ ~last'.ok) => meta' = meta
       /\ \A document_id \in DocIds, document \in MetaDocs :
             (/\ MetaUpdate(document_id, document)
              /\ document_id \in DOMAIN meta.documents
              /\ ~last'.ok) => meta' = meta
       /\ StoredValid(meta) => StoredValid(meta')]_vars

====
